---------------------------- MODULE Spec2Model ----------------------------
(***************************************************************************)
(* The GDELT scraper (src/Scrapers/GDELT/scraper.py): the date-range       *)
(* crawler with its two strategies, the HTTP client's retry policy, the    *)
(* response sanitizer and the CSV sink.                                    *)
(*                                                                         *)
(* A timestamp is a pair <<s, us>>: whole seconds since an epoch that is a *)
(* midnight, and microseconds 0..999999, the resolution of a Python        *)
(* datetime.  A timedelta is the same pair, normalised the same way.       *)
(***************************************************************************)
EXTENDS Integers, Sequences, FiniteSets, TLC

\* ------------------------------------------------------------- constants

\* scraper.py:27  smallest_interval = 1800
smallest_interval == 1800

\* scraper.py:49  len(result) == 250 (and maxrecords=250 of the URL)
Cap == 250

\* scraper.py:15  Retry(total=12, ...)
RetryTotal == 12

\* scraper.py:15  status_forcelist
status_forcelist == {429, 500, 502, 503, 504}

\* urllib3 Retry.RETRY_AFTER_STATUS_CODES, honoured because Retry(...) of
\* scraper.py:15 leaves respect_retry_after_header at its default
RETRY_AFTER_STATUS_CODES == {413, 429, 503}

\* microseconds per second: datetime objects (to_pydatetime, scraper.py:51)
\* carry no finer unit
MicrosPerSecond == 1000000

SecondsPerDay == 86400

\* ----------------------------------------------------------------- bounds

\* how many capped (250-record) responses the API gives during one crawl
MaxCapped == 7

\* CPython's recursion limit (1000 frames by default), scaled down
RecursionLimit == 12

\* how many characters the --keywords argument has at most
MaxKeywordLen == 3

\* --------------------------------------------------------- time arithmetic

Ts(s) == <<s, 0>>

\* a - b of two datetimes: a timedelta, microseconds normalised to 0..999999
Sub(a, b) ==
    IF a[2] >= b[2] THEN <<a[1] - b[1], a[2] - b[2]>>
    ELSE <<a[1] - b[1] - 1, a[2] - b[2] + MicrosPerSecond>>

\* datetime + timedelta
Add(a, d) ==
    IF a[2] + d[2] < MicrosPerSecond THEN <<a[1] + d[1], a[2] + d[2]>>
    ELSE <<a[1] + d[1] + 1, a[2] + d[2] - MicrosPerSecond>>

\* floor of an integer quotient, also for a negative dividend
FloorDiv(x, k) == IF x >= 0 THEN x \div k ELSE -((-x + k - 1) \div k)

\* half of a timedelta, rounded down to the microsecond: np.linspace with
\* dtype int64 floors the nanosecond midpoint and to_pydatetime drops what is
\* finer than a microsecond
Half(d) ==
    LET hs == FloorDiv(d[1], 2)
        r  == d[1] - 2 * hs
    IN  <<hs, (r * MicrosPerSecond + d[2]) \div 2>>

\* timedelta.total_seconds() >= k for a whole number k
AtLeastSeconds(d, k) == d[1] >= k

\* timedelta.total_seconds() < k for a whole number k
BelowSeconds(d, k) == d[1] < k

\* pd.date_range(from, to, periods=2).to_pydatetime().tolist()
DateRange2(from, to) == <<from, to>>

\* (mutant) the middle element taken a quarter of the way, as from a longer
\* date_range
DateRange3Quarter(from, to) == <<from, Add(from, Half(Half(Sub(to, from)))), to>>

\* pd.date_range(from, to, periods=3).to_pydatetime().tolist()
DateRange3(from, to) == <<from, Add(from, Half(Sub(to, from))), to>>

RECURSIVE TicksOpen(_, _, _)
\* (mutant) the end of the range left out
TicksOpen(t, to, f) ==
    IF t >= to THEN <<>> ELSE <<Ts(t)>> \o TicksOpen(t + f, to, f)

RECURSIVE Ticks(_, _, _)
\* pd.date_range(from, to, freq=f): from, from + f, ... up to and including to
Ticks(t, to, f) ==
    IF t > to THEN <<>> ELSE <<Ts(t)>> \o Ticks(t + f, to, f)

DateRangeFreq(from, to, f) == Ticks(from[1], to[1], f)

\* datetime(day.year, day.month, day.day, 0, 0, 0)
DayStart(day) == Ts(day[1] - (day[1] % SecondsPerDay))

\* datetime(day.year, day.month, day.day, 23, 59, 59)
DayEnd(day) == Ts(day[1] - (day[1] % SecondsPerDay) + SecondsPerDay - 1)

\* ------------------------------------------------------- response text

\* A response text is a sequence of characters, each named by a string.
Quote     == "\""
Backslash == "\\"
Newline   == "\\n"
Ctrl      == "\\x01"

\* the characters 0x00..0x1f that a JSON string may not hold unescaped
ControlChars == {Newline, Ctrl}

\* the hexadecimal digits among the characters of the model
HexDigits == {"a", "1"}

\* the characters that may follow a backslash in a JSON string, among the
\* characters of the model: \" \\ \n
SimpleEscapes == {Quote, Backslash, "n"}

\* json.loads either returns (ok, at = the index after the value) or raises
\* JSONDecodeError (not ok, at = e.pos).  Indexes count from 0 as in Python.
Ok(i)  == [ok |-> TRUE, at |-> i]
Err(i) == [ok |-> FALSE, at |-> i]

Ch(s, i) == s[i + 1]

RECURSIVE ScanString(_, _, _)
\* json's scanstring, strict: s[begin] is the opening quote, i the index read
ScanString(s, begin, i) ==
    IF i >= Len(s) THEN Err(begin)
    ELSE LET c == Ch(s, i) IN
         IF c = Quote THEN Ok(i + 1)
         ELSE IF c = Backslash THEN
             IF i + 1 >= Len(s) THEN Err(begin)
             ELSE LET e == Ch(s, i + 1) IN
                  IF e = "u" THEN
                      IF i + 6 >= Len(s) THEN Err(i + 1)
                      ELSE IF \A k \in 2 .. 5 : Ch(s, i + k) \in HexDigits
                           THEN ScanString(s, begin, i + 6)
                           ELSE Err(i + 1)
                  ELSE IF e \in SimpleEscapes THEN ScanString(s, begin, i + 2)
                  ELSE Err(i)
         ELSE IF c \in ControlChars THEN Err(i)
         ELSE ScanString(s, begin, i + 1)

RECURSIVE NumberEnd(_, _)
\* the index after the longest run of digits that starts at i
NumberEnd(s, i) ==
    IF i < Len(s) /\ Ch(s, i) = "1" THEN NumberEnd(s, i + 1) ELSE i

RECURSIVE ScanOnce(_, _)
RECURSIVE ObjectLoop(_, _)
RECURSIVE ArrayLoop(_, _)

\* json's object parser after the brace: one "key": value pair per round
ObjectLoop(s, i) ==
    IF i >= Len(s) \/ Ch(s, i) # Quote THEN Err(i)
    ELSE LET k == ScanString(s, i, i + 1) IN
         IF ~k.ok THEN k
         ELSE IF k.at >= Len(s) \/ Ch(s, k.at) # ":" THEN Err(k.at)
         ELSE LET v == ScanOnce(s, k.at + 1) IN
              IF ~v.ok THEN v
              ELSE IF v.at < Len(s) /\ Ch(s, v.at) = "}" THEN Ok(v.at + 1)
              ELSE IF v.at >= Len(s) \/ Ch(s, v.at) # "," THEN Err(v.at)
              ELSE ObjectLoop(s, v.at + 1)

\* json's array parser after the bracket: one value per round
ArrayLoop(s, i) ==
    LET v == ScanOnce(s, i) IN
    IF ~v.ok THEN v
    ELSE IF v.at < Len(s) /\ Ch(s, v.at) = "]" THEN Ok(v.at + 1)
    ELSE IF v.at >= Len(s) \/ Ch(s, v.at) # "," THEN Err(v.at)
    ELSE ArrayLoop(s, v.at + 1)

\* json's scan_once: the value that starts at index i
ScanOnce(s, i) ==
    IF i >= Len(s) THEN Err(i)
    ELSE LET c == Ch(s, i) IN
         IF c = Quote THEN ScanString(s, i, i + 1)
         ELSE IF c = "{" THEN
             IF i + 1 < Len(s) /\ Ch(s, i + 1) = "}" THEN Ok(i + 2)
             ELSE ObjectLoop(s, i + 1)
         ELSE IF c = "[" THEN
             IF i + 1 < Len(s) /\ Ch(s, i + 1) = "]" THEN Ok(i + 2)
             ELSE ArrayLoop(s, i + 1)
         ELSE IF c = "n" THEN
             IF i + 3 < Len(s) /\ Ch(s, i + 1) = "u" /\ Ch(s, i + 2) = "l"
                /\ Ch(s, i + 3) = "l"
             THEN Ok(i + 4) ELSE Err(i)
         ELSE IF c = "1" THEN Ok(NumberEnd(s, i))
         ELSE Err(i)

\* json.loads(data): one value, and nothing after it
Loads(s) ==
    LET v == ScanOnce(s, 0) IN
    IF ~v.ok THEN v
    ELSE IF v.at # Len(s) THEN Err(v.at)
    ELSE v

\* data[: p] + data[p + 1 :]   (scraper.py:154); a slice past the end is empty
DeleteAt(s, p) ==
    [i \in 1 .. (IF p < Len(s) THEN Len(s) - 1 ELSE Len(s)) |->
        IF i <= p THEN s[i] ELSE s[i + 1]]

RECURSIVE Replace(_)
\* data.replace("\\", "\\\\").replace("\n", "")   (scraper.py:172)
Replace(s) ==
    IF s = <<>> THEN <<>>
    ELSE IF Head(s) = Backslash THEN <<Backslash, Backslash>> \o Replace(Tail(s))
    ELSE IF Head(s) = Newline THEN Replace(Tail(s))
    ELSE <<Head(s)>> \o Replace(Tail(s))

strip_invalid_characters(data) == Replace(data)

\* ----------------------------------------------------------- query encoder

\* the characters of a --keywords argument: a letter, the space (AND), the
\* comma (OR), and characters urllib.parse.quote treats its own way
KeywordChars == {"w", " ", ",", "%", "/"}

\* urllib.parse.quote(c) of one character with the default safe="/":
\* letters, digits, "_.-~" and "/" stay, anything else becomes %XX
QuoteChar(c) ==
    CASE c = " "   -> <<"%", "2", "0">>
      [] c = Quote -> <<"%", "2", "2">>
      [] c = "%"   -> <<"%", "2", "5">>
      [] c = ","   -> <<"%", "2", "C">>
      [] OTHER     -> <<c>>

RECURSIVE quote(_)
\* urllib.parse.quote(s)
quote(s) == IF s = <<>> THEN <<>> ELSE QuoteChar(Head(s)) \o quote(Tail(s))

RECURSIVE SplitOn(_, _)
\* s.split(c): the pieces of s between the occurrences of c, empty ones too
SplitOn(s, c) ==
    IF \A i \in DOMAIN s : s[i] # c THEN <<s>>
    ELSE LET p == CHOOSE i \in DOMAIN s :
                    s[i] = c /\ \A j \in 1 .. i - 1 : s[j] # c
         IN  <<SubSeq(s, 1, p - 1)>> \o SplitOn(SubSeq(s, p + 1, Len(s)), c)

RECURSIVE Join(_, _)
\* sep.join(ts)
Join(ts, sep) ==
    IF ts = <<>> THEN <<>>
    ELSE IF Len(ts) = 1 THEN ts[1]
    ELSE ts[1] \o sep \o Join(Tail(ts), sep)

\* (mutant) the terms joined as they are, without urllib.parse.quote
transform_keywords_unencoded(keywords) ==
    IF \E i \in DOMAIN keywords : keywords[i] = ","
    THEN LET sep == <<Quote, " ", "O", "R", " ", Quote>> IN
         <<"(", Quote>> \o Join(SplitOn(keywords, ","), sep) \o <<Quote, ")">>
    ELSE LET encoded_keyword == quote(keywords) IN
         IF encoded_keyword # keywords
         THEN <<Quote>> \o encoded_keyword \o <<Quote>>
         ELSE encoded_keyword

\* transform_keywords (scraper.py:175-195)
transform_keywords(keywords) ==
    IF \E i \in DOMAIN keywords : keywords[i] = ","
    THEN LET sep == <<Quote, " ", "O", "R", " ", Quote>>
             terms == SplitOn(keywords, ",")
             encoded_keywords == [i \in DOMAIN terms |-> quote(terms[i])]
         IN  <<"(", Quote>> \o Join(encoded_keywords, sep) \o <<Quote, ")">>
    ELSE LET encoded_keyword == quote(keywords) IN
         IF encoded_keyword # keywords
         THEN <<Quote>> \o encoded_keyword \o <<Quote>>
         ELSE encoded_keyword

\* the --keywords arguments: every string of KeywordChars of MaxKeywordLen
\* characters at most, the empty one too
Keywords ==
    UNION { [1 .. n -> KeywordChars] : n \in 0 .. MaxKeywordLen }

\* ------------------------------------------------------------ scenarios

\* the response texts the API may send: well-formed documents ...
ValidTexts ==
    { <<"{", "}">>,
      <<"[", "]">>,
      <<"{", Quote, "a", Quote, ":", Quote, "a", Quote, "}">>,
      <<"{", Quote, "a", Quote, ":", "[", "1", ",", "n", "u", "l", "l", "]", "}">> }

\* s with character c put in front of index p
InsertAt(s, p, c) == SubSeq(s, 1, p) \o <<c>> \o SubSeq(s, p + 1, Len(s))

\* ... and the same documents with one defect: a stray control character, a
\* bare backslash or a raw newline at any offset, or the text cut short
DefectTexts ==
    UNION { { InsertAt(s, p, c) : p \in 0 .. Len(s), c \in {Ctrl, Backslash, Newline} }
            \cup { SubSeq(s, 1, p) : p \in 0 .. Len(s) - 1 } : s \in ValidTexts }

\* what the file at file_path holds before the crawl: nothing (no file), an
\* empty file, or the header and rows of an earlier crawl
\* The file is a sequence of entries: the header line, and the rows of one
\* saved DataFrame (the range they were asked for, and how many they are).
Header == [header |-> "Link,Mobile Link,Title,Date,Image,Domain,Language,Country"]
Rows(r, n) == [from |-> r.from, to |-> r.to, n |-> n]
OldRows == Rows([from |-> Ts(0), to |-> Ts(60)], 1)

\* A scenario: the arguments main() passes on (strategy, from, to, frequency,
\* all times in seconds), the file found at file_path, and the API's
\* behaviour: whether it sends error statuses and defective texts, and the
\* record counts it answers with.
Scenario(st, f, t, fr, ex, old, faulty, counts) ==
    [strategy |-> st, date_from |-> Ts(f), date_to |-> Ts(t), frequency |-> fr,
     existed |-> ex, old |-> old, faulty |-> faulty, counts |-> counts,
     keywords |-> <<"w">>]

Files == { <<FALSE, <<>> >>, <<TRUE, <<>> >>, <<TRUE, <<Header, OldRows>> >> }

Scenarios ==
    \* long recursive crawls against a well-behaved API
    { Scenario("recursive", 0, t, 0, FALSE, <<>>, FALSE, {Cap - 1, Cap}) :
        t \in {2 * SecondsPerDay, 230401} }
    \cup
    \* short crawls, every file state
    { Scenario(x[1], x[2], x[3], x[4], fl[1], fl[2], FALSE, {0, Cap - 1, Cap}) :
        x \in { <<"recursive", 0, 1800, 0>>, <<"recursive", 0, 3599, 0>>,
                <<"recursive", 0, 3600, 0>>, <<"recursive", 0, 7201, 0>>,
                <<"recursive", 3600, 3600, 0>>, <<"recursive", 3600, 0, 0>>,
                <<"iterative", 0, 2 * SecondsPerDay, SecondsPerDay>>,
                <<"iterative", 3600, SecondsPerDay + 7200, SecondsPerDay>>,
                <<"iterative", 0, SecondsPerDay, SecondsPerDay \div 2>>,
                <<"iterative", SecondsPerDay, 0, SecondsPerDay>> },
        fl \in Files }
    \cup
    \* short crawls against an API that fails and garbles
    { Scenario(x[1], x[2], x[3], x[4], FALSE, <<>>, TRUE, {Cap - 1, Cap}) :
        x \in { <<"recursive", 0, 3600, 0>>,
                <<"iterative", 0, SecondsPerDay, SecondsPerDay>> } }
    \cup
    \* short crawls against a well-behaved API, every --keywords argument
    { [Scenario(st, 0, SecondsPerDay, SecondsPerDay, FALSE, <<>>, FALSE, {0})
          EXCEPT !.keywords = k] :
        st \in {"recursive", "iterative"}, k \in Keywords }

\* ----------------------------------------------------------------- state

VARIABLES
    scn,        \* the scenario: main()'s arguments and the environment
    pc,         \* "main", "call", "get", "parse", "result", "done", "failed"
    frames,     \* call stack of get_data_recursively: [from, mid, to, at]
    days,       \* get_data_iteratively: the list of buckets
    day,        \* get_data_iteratively: index of the bucket in hand
    total,      \* session.get: what is left of Retry.total
    last,       \* session.get: the latest attempt's outcome
    gets,       \* GET attempts sent for the request session.get is at
    delays,     \* time.sleep(timeout) calls made for that request
    text,       \* request.text of the response in hand
    data,       \* parse_json: its argument
    depth,      \* parse_json: how many activations are on the stack
    result,     \* len(result) of the DataFrame get_data_by_date returned
    exists,     \* os.path.exists(file_path)
    file,       \* the content of the file at file_path
    capped,     \* how many responses so far held Cap records
    error,      \* the exception that ended the crawl, or "none"
    log         \* history: the calls, results, splits and saves so far

vars == <<scn, pc, frames, days, day, total, last, gets, delays, text, data,
          depth, result, exists, file, capped, error, log>>

NoOutcome == [kind |-> "none", status |-> 0, retry_after |-> FALSE]

Init ==
    /\ scn \in Scenarios
    /\ pc = "main"
    /\ frames = <<>>
    /\ days = <<>>
    /\ day = 0
    /\ total = RetryTotal
    /\ last = NoOutcome
    /\ gets = 0
    /\ delays = 0
    /\ text = <<>>
    /\ data = <<>>
    /\ depth = 0
    /\ result = 0
    /\ exists = scn.existed
    /\ file = scn.old
    /\ capped = 0
    /\ error = "none"
    /\ log = <<>>


\* ------------------------------------------------------------- operations

Range(f, t) == [from |-> f, to |-> t]

\* timestamp.strftime(gdelt_format), "%Y%m%d%H%M%S" (scraper.py:21 and 102):
\* the whole seconds, nothing finer
Strftime(ts) == ts[1]

\* an entry of the history: a call (with the query, the startdatetime and the
\* enddatetime of its URL, scraper.py:45, 77 and 102), a result, a split or a
\* save of the range [from, to]
Event(e, r, n) ==
    [ev |-> e, from |-> r.from, to |-> r.to, n |-> n,
     url |-> <<Strftime(r.from), Strftime(r.to)>>,
     query |-> transform_keywords(scn.keywords)]

Top == frames[Len(frames)]

\* the (timestamp_from, timestamp_to) handed to get_data_by_date:
\* scraper.py:46-47 (recursive) and scraper.py:81-84 (iterative)
CurRange ==
    IF scn.strategy = "recursive"
    THEN LET se == DateRange2(Top.from, Top.to) IN Range(se[1], se[2])
    ELSE Range(DayStart(days[day]), DayEnd(days[day]))

\* main(): scraper.py:266-269, up to the first get_data_by_date
Main ==
    /\ pc = "main"
    /\ IF scn.strategy = "iterative"
       THEN LET ds == DateRangeFreq(scn.date_from, scn.date_to, scn.frequency) IN
            /\ days' = ds
            /\ day' = 1
            /\ frames' = frames
            /\ pc' = IF ds = <<>> THEN "done" ELSE "call"
       ELSE /\ frames' = <<[from |-> scn.date_from, mid |-> scn.date_from,
                            to |-> scn.date_to, at |-> "body"]>>
            /\ pc' = "call"
            /\ UNCHANGED <<days, day>>
    /\ UNCHANGED <<scn, total, last, gets, delays, text, data, depth, result,
                   exists, file, capped, error, log>>

\* (mutant) send_request without its time.sleep(timeout)
SendRequestNoSleep ==
    /\ pc = "call"
    /\ log' = Append(log, Event("call", CurRange, 0))
    /\ delays' = 0
    /\ gets' = 0
    /\ total' = RetryTotal
    /\ last' = NoOutcome
    /\ pc' = "get"
    /\ UNCHANGED <<scn, frames, days, day, text, data, depth, result, exists,
                   file, capped, error>>

\* get_data_by_date -> send_request: scraper.py:102-103 and 135, the
\* time.sleep(timeout) before session.get
SendRequest ==
    /\ pc = "call"
    /\ log' = Append(log, Event("call", CurRange, 0))
    /\ delays' = 1
    /\ gets' = 0
    /\ total' = RetryTotal
    /\ last' = NoOutcome
    /\ pc' = "get"
    /\ UNCHANGED <<scn, frames, days, day, text, data, depth, result, exists,
                   file, capped, error>>

\* the statuses the API answers with
Statuses == IF scn.faulty THEN {200, 404, 413} \cup status_forcelist ELSE {200}

\* what an attempt may meet: a response, with a Retry-After header or
\* without (the header goes with the statuses that ask to come back later),
\* or no response at all
Outcomes ==
    { o \in [kind : {"response"}, status : Statuses, retry_after : BOOLEAN] :
        o.retry_after => o.status \in RETRY_AFTER_STATUS_CODES }
    \cup (IF scn.faulty
          THEN {[kind |-> "connection error", status |-> 0, retry_after |-> FALSE]}
          ELSE {})

\* (mutant) every status but 200 is retried
IsRetryAnyError(o, left) ==
    \/ o.kind = "connection error"
    \/ o.kind = "response" /\ o.status # 200

\* urllib3's Retry.is_retry for a GET under Retry(total, status_forcelist) of
\* scraper.py:15, and its handling of a connection error
IsRetry(o, left) ==
    \/ o.kind = "connection error"
    \/ /\ o.kind = "response"
       /\ \/ o.status \in status_forcelist
          \/ left > 0 /\ o.retry_after /\ o.status \in RETRY_AFTER_STATUS_CODES

\* session.get (scraper.py:137): an attempt fails in a way the Retry of
\* scraper.py:15 covers, budget is left, and the adapter sends the GET again
GetRetried ==
    /\ pc = "get"
    /\ \E o \in Outcomes :
        /\ IsRetry(o, total)
        /\ total - 1 >= 0
        /\ last' = o
    /\ total' = total - 1
    /\ gets' = gets + 1
    /\ UNCHANGED <<scn, pc, frames, days, day, delays, text, data, depth,
                   result, exists, file, capped, error, log>>

\* session.get: the attempt fails the same way with the budget used up;
\* RetryError or ConnectionError leaves send_request and ends the crawl
GetExhausted ==
    /\ pc = "get"
    /\ \E o \in Outcomes :
        /\ IsRetry(o, total)
        /\ total - 1 < 0
        /\ last' = o
        /\ error' = IF o.kind = "response" THEN "RetryError" ELSE "ConnectionError"
    /\ gets' = gets + 1
    /\ pc' = "failed"
    /\ UNCHANGED <<scn, frames, days, day, total, delays, text, data, depth,
                   result, exists, file, capped, log>>

\* the texts a response of the given status may carry
Texts(o) ==
    IF ~scn.faulty THEN ValidTexts
    ELSE IF o.status = 200 THEN ValidTexts \cup DefectTexts
    ELSE {<<>>, <<"a">>}

\* session.get returns a response, and the request is over (its retry state
\* and the counts of its attempts and delays go); send_request hands
\* strip_invalid_characters(request.text) to parse_json (scraper.py:137-138)
GetReturned ==
    /\ pc = "get"
    /\ \E o \in Outcomes :
        /\ ~IsRetry(o, total)
        /\ last' = o
        /\ \E b \in Texts(o) :
            /\ text' = b
            /\ data' = strip_invalid_characters(b)
    /\ total' = RetryTotal
    /\ gets' = 0
    /\ delays' = 0
    /\ depth' = 1
    /\ pc' = "parse"
    /\ UNCHANGED <<scn, frames, days, day, result, exists, file, capped, error,
                   log>>

\* parse_json (scraper.py:151-152): json.loads succeeds; get_data_by_date
\* builds the DataFrame (scraper.py:104-120), of n records
ParseReturned ==
    /\ pc = "parse"
    /\ Loads(data).ok
    /\ \E n \in scn.counts :
        /\ n = Cap => capped < MaxCapped
        /\ result' = n
        /\ capped' = IF n = Cap THEN capped + 1 ELSE capped
        /\ log' = Append(log, Event("result", CurRange, n))
    /\ pc' = "result"
    /\ UNCHANGED <<scn, frames, days, day, total, last, gets, delays, text,
                   data, depth, exists, file, error>>

\* parse_json (scraper.py:153-154): json.loads raises at e.pos; parse_json
\* calls itself on the data without the character at e.pos
ParseRepaired ==
    /\ pc = "parse"
    /\ ~Loads(data).ok
    /\ depth < RecursionLimit
    /\ data' = DeleteAt(data, Loads(data).at)
    /\ depth' = depth + 1
    /\ UNCHANGED <<scn, pc, frames, days, day, total, last, gets, delays, text,
                   result, exists, file, capped, error, log>>

\* (mutant) the stack full, parse_json gives up and returns an empty dict
ParseGaveEmptyDict ==
    /\ pc = "parse"
    /\ ~Loads(data).ok
    /\ depth >= RecursionLimit
    /\ result' = 0
    /\ log' = Append(log, Event("result", CurRange, 0))
    /\ pc' = "result"
    /\ UNCHANGED <<scn, frames, days, day, total, last, gets, delays, text,
                   data, depth, exists, file, capped, error>>

\* parse_json: the call of scraper.py:154 finds the interpreter's stack
\* full; RecursionError is no JSONDecodeError, so it leaves every activation
\* and ends the crawl
ParseOverflowed ==
    /\ pc = "parse"
    /\ ~Loads(data).ok
    /\ depth >= RecursionLimit
    /\ error' = "RecursionError"
    /\ pc' = "failed"
    /\ UNCHANGED <<scn, frames, days, day, total, last, gets, delays, text,
                   data, depth, result, exists, file, capped, log>>

\* the locals of get_data_by_date, send_request and parse_json, and the
\* result, go out of scope when the caller has used the result
Forget ==
    /\ total' = RetryTotal
    /\ last' = NoOutcome
    /\ gets' = 0
    /\ delays' = 0
    /\ text' = <<>>
    /\ data' = <<>>
    /\ depth' = 0
    /\ result' = 0

\* (mutant) mode="w": the file is written anew
ToCsvOverwrite(content, there, r, n) ==
    <<Header>> \o (IF n > 0 THEN <<Rows(r, n)>> ELSE <<>>)

\* (mutant) header=True: the header goes with every DataFrame
ToCsvHeaderAlways(content, there, r, n) ==
    content \o <<Header>> \o (IF n > 0 THEN <<Rows(r, n)>> ELSE <<>>)

\* result.to_csv(file_path, header=not os.path.exists(file_path), mode="a")
\* (scraper.py:58 and 85): the header if there is no file, then the rows
ToCsv(content, there, r, n) ==
    content \o (IF there THEN <<>> ELSE <<Header>>)
            \o (IF n > 0 THEN <<Rows(r, n)>> ELSE <<>>)

\* (mutant) if len(result) >= 249
IsCappedOffByOne(n) == n >= Cap - 1

\* (mutant) if len(result) > 250
IsCappedNever(n) == n > Cap

\* scraper.py:49  if len(result) == 250
IsCapped(n) == n = Cap

\* (mutant) the range, not its halves, lasts at least smallest_interval
CanSplitWholeRange(sme) ==
    AtLeastSeconds(Sub(sme[3], sme[1]), smallest_interval)

\* scraper.py:53  both halves last at least smallest_interval
CanSplit(sme) ==
    /\ AtLeastSeconds(Sub(sme[2], sme[1]), smallest_interval)
    /\ AtLeastSeconds(Sub(sme[3], sme[2]), smallest_interval)

\* get_data_recursively (scraper.py:49-55): a capped result of a range that
\* can be halved is dropped and the left half is crawled
Split ==
    /\ pc = "result"
    /\ scn.strategy = "recursive"
    /\ LET sme == DateRange3(Top.from, Top.to) IN
        /\ IsCapped(result)
        /\ CanSplit(sme)
        /\ frames' = [frames EXCEPT ![Len(frames)] =
                          [from |-> sme[1], mid |-> sme[2], to |-> sme[3],
                           at |-> "left"]]
                     \o <<[from |-> sme[1], mid |-> sme[1], to |-> sme[2],
                           at |-> "body"]>>
        /\ log' = Append(log, Event("split", Range(Top.from, Top.to), result))
    /\ pc' = "call"
    /\ Forget
    /\ UNCHANGED <<scn, days, day, exists, file, capped, error>>

RECURSIVE ReturnPastMid(_)
\* (mutant) the second recursive call starts one second after mid
ReturnPastMid(fs) ==
    IF fs = <<>> THEN <<>>
    ELSE LET f == fs[Len(fs)] IN
         IF f.at = "left"
         THEN [fs EXCEPT ![Len(fs)].at = "right"]
              \o <<[from |-> Add(f.mid, <<1, 0>>), mid |-> f.mid, to |-> f.to,
                    at |-> "body"]>>
         ELSE ReturnPastMid(SubSeq(fs, 1, Len(fs) - 1))

RECURSIVE Return(_)
\* the returns that follow a save: every activation whose second recursive
\* call (scraper.py:55) has returned returns too (scraper.py:56); the
\* nearest one still at its first call (scraper.py:54) makes its second
Return(fs) ==
    IF fs = <<>> THEN <<>>
    ELSE LET f == fs[Len(fs)] IN
         IF f.at = "left"
         THEN [fs EXCEPT ![Len(fs)].at = "right"]
              \o <<[from |-> f.mid, mid |-> f.mid, to |-> f.to, at |-> "body"]>>
         ELSE Return(SubSeq(fs, 1, Len(fs) - 1))

\* get_data_recursively (scraper.py:58-59): the result is appended to the
\* file and the activation returns
Save ==
    /\ pc = "result"
    /\ scn.strategy = "recursive"
    /\ ~(IsCapped(result) /\ CanSplit(DateRange3(Top.from, Top.to)))
    /\ file' = ToCsv(file, exists, Range(Top.from, Top.to), result)
    /\ exists' = TRUE
    /\ log' = Append(log, Event("save", Range(Top.from, Top.to), result))
    /\ frames' = Return(SubSeq(frames, 1, Len(frames) - 1))
    /\ pc' = IF frames' = <<>> THEN "done" ELSE "call"
    /\ Forget
    /\ UNCHANGED <<scn, days, day, capped, error>>

\* get_data_iteratively (scraper.py:85-86 and the loop of line 80): the
\* bucket's result is appended and the next bucket is taken
SaveBucket ==
    /\ pc = "result"
    /\ scn.strategy = "iterative"
    /\ file' = ToCsv(file, exists, CurRange, result)
    /\ exists' = TRUE
    /\ log' = Append(log, Event("save", CurRange, result))
    /\ day' = day + 1
    /\ pc' = IF day = Len(days) THEN "done" ELSE "call"
    /\ Forget
    /\ UNCHANGED <<scn, frames, days, capped, error>>

Next ==
    \/ Main
    \/ SendRequest
    \/ GetRetried
    \/ GetExhausted
    \/ GetReturned
    \/ ParseReturned
    \/ ParseRepaired
    \/ ParseOverflowed
    \/ Split
    \/ Save
    \/ SaveBucket

Spec == Init /\ [][Next]_vars


\* ================================================================ claims

Events(e) == { i \in DOMAIN log : log[i].ev = e }

SameRange(a, b) == a.from = b.from /\ a.to = b.to

Recursive == scn.strategy = "recursive"

\* the length of a range, a timedelta
Duration(r) == Sub(r.to, r.from)

\* ------------------------------------------------------------------- C1
\* C1: in a recursive crawl, a range whose API call returned fewer than 250
\* records is called exactly once, is never split, and its result is what
\* the next step appends to the file.
C1_BelowCapOneCallNoSplit ==
    Recursive =>
        \A i \in Events("result") :
            log[i].n < Cap =>
                /\ Cardinality({ j \in Events("call") : SameRange(log[j], log[i]) }) = 1
                /\ \A j \in Events("split") : ~SameRange(log[j], log[i])
                /\ IF i = Len(log) THEN pc = "result"
                   ELSE /\ log[i + 1].ev = "save"
                        /\ SameRange(log[i + 1], log[i])
                        /\ log[i + 1].n = log[i].n
                        /\ log[i].n > 0 =>
                             \E k \in DOMAIN file : file[k] = Rows(log[i], log[i].n)

\* a finished recursive crawl that split a range and then saved a half that
\* held fewer than 250 records
C1_Witness ==
    /\ Recursive
    /\ pc = "done"
    /\ Events("split") # {}
    /\ \E i \in Events("save") : log[i].n = Cap - 1 /\ log[i].from # scn.date_from

\* ------------------------------------------------------------------- C2
\* C2 as stated: when a recursive crawl has finished, every saved range
\* either held fewer than 250 records or held 250 and lasts less than
\* smallest_interval (1800 s), and is saved once.
SavedOnce(i) ==
    /\ Cardinality({ j \in Events("save") : SameRange(log[j], log[i]) }) = 1
    /\ Cardinality({ k \in DOMAIN file : file[k] = Rows(log[i], log[i].n) }) = 1

C2_CappedLeafBelowGranularity ==
    (Recursive /\ pc = "done") =>
        \A i \in Events("save") :
            \/ log[i].n < Cap
            \/ /\ log[i].n = Cap
               /\ BelowSeconds(Duration(log[i]), smallest_interval)
               /\ SavedOnce(i)

\* C2 amended: ... or held 250 and lasts less than twice smallest_interval
\* (3600 s), so that a half of it would last less than 1800 s; such a range
\* is saved once.
C2_CappedLeafBelowTwiceGranularity ==
    (Recursive /\ pc = "done") =>
        \A i \in Events("save") :
            \/ log[i].n < Cap
            \/ /\ log[i].n = Cap
               /\ BelowSeconds(Duration(log[i]), 2 * smallest_interval)
               /\ SavedOnce(i)

\* a finished recursive crawl that split and saved a capped range of at least
\* 1800 s
C2_Witness ==
    /\ Recursive
    /\ pc = "done"
    /\ Events("split") # {}
    /\ \E i \in Events("save") :
        /\ log[i].n = Cap
        /\ AtLeastSeconds(Duration(log[i]), smallest_interval)

\* ------------------------------------------------------------------- C3
\* the calls a split at log index i leads to: the next entry is the call of
\* the left half [from, m]; the right half [m, to] is called once, later,
\* and has been called when the crawl is done
ChildCalls(i, HalvesOk(_, _)) ==
    i < Len(log) =>
        LET l == log[i + 1] IN
        /\ l.ev = "call"
        /\ l.from = log[i].from
        /\ HalvesOk(Sub(l.to, log[i].from), Sub(log[i].to, l.to))
        /\ LET right == { j \in Events("call") :
                            log[j].from = l.to /\ log[j].to = log[i].to } IN
           /\ \A j \in right : j > i + 1
           /\ Cardinality(right) <= 1
           /\ pc = "done" => Cardinality(right) = 1
        /\ pc = "done" =>
             Cardinality({ j \in Events("call") : log[j].from = log[i].from
                                                    /\ log[j].to = l.to }) = 1

EqualHalves(a, b) == a = b

\* the halves are equal, or the right one is one microsecond longer
HalvesToTheMicrosecond(a, b) == b = a \/ b = Add(a, <<0, 1>>)

\* C3 as stated: a split of [from, to] is followed by the calls of
\* [from, mid] and [mid, to], left first, with mid - from = to - mid.
C3_SplitAtExactMidpoint ==
    Recursive => \A i \in Events("split") : ChildCalls(i, EqualHalves)

\* C3 amended: ... with mid the midpoint rounded down to the microsecond:
\* to - mid equals mid - from or exceeds it by one microsecond.
C3_SplitAtMidpointToTheMicrosecond ==
    Recursive => \A i \in Events("split") : ChildCalls(i, HalvesToTheMicrosecond)

\* the two-day range of 250 records: split once, then two calls of one day
\* each, the left one first, neither capped
C3_Witness ==
    /\ Recursive
    /\ pc = "done"
    /\ scn.date_to = Ts(2 * SecondsPerDay)
    /\ Len(log) = 9
    /\ log[3].ev = "split"
    /\ log[4].ev = "call" /\ log[4].from = Ts(0) /\ log[4].to = Ts(SecondsPerDay)
    /\ log[7].ev = "call" /\ log[7].from = Ts(SecondsPerDay)
    /\ log[7].to = Ts(2 * SecondsPerDay)


\* ------------------------------------------------------------------- C4
\* C4: in a crawl of either strategy every called range gets one result at
\* most, a range is never both saved and split, and no two API calls are
\* for the same time range.
C4_NoRangeCalledTwice ==
    /\ \A i, j \in Events("call") : i # j => ~SameRange(log[i], log[j])
    /\ \A i \in Events("save"), j \in Events("split") : ~SameRange(log[i], log[j])

\* ------------------------------------------------------------------- C5
RECURSIVE SavedRows(_)
\* the rows of the saves of a history, in their order
SavedRows(h) ==
    IF h = <<>> THEN <<>>
    ELSE (IF Head(h).ev = "save" /\ Head(h).n > 0
          THEN <<Rows(Head(h), Head(h).n)>> ELSE <<>>) \o SavedRows(Tail(h))

WithoutHeader(f) == SelectSeq(f, LAMBDA e : e # Header)

\* C5: at every moment, also after a fatal error, the file holds what it
\* held before the crawl and then the rows of every range saved so far, in
\* the order of the saves; a result is saved or dropped for a split before
\* the next API call is issued.
C5_PartialProgressKept ==
    /\ WithoutHeader(file) = WithoutHeader(scn.old) \o SavedRows(log)
    /\ \A i \in Events("call") :
         i > 1 => log[i - 1].ev \in {"save", "split"}
    /\ pc \in {"get", "parse", "failed"} =>
         (log # <<>> /\ log[Len(log)].ev = "call")

\* the crawl failed fatally after rows had been saved
C5_Witness ==
    /\ pc = "failed"
    /\ \E i \in Events("save") : log[i].n > 0 /\ i < Len(log)
    /\ file # scn.old

\* ------------------------------------------------------------------- C6
IsPrefix(a, b) == Len(a) <= Len(b) /\ SubSeq(b, 1, Len(a)) = a

HeaderCount(f) == Cardinality({ k \in DOMAIN f : f[k] = Header })

\* C6: no append shortens or changes what the file holds, whether left by an
\* earlier crawl or written by this one; a crawl that found no file writes
\* the header once, with its first save and ahead of it, and a crawl that
\* found a file, even an empty one, writes none.
C6_AppendOnlyHeaderOnce ==
    /\ IsPrefix(scn.old, file)
    /\ HeaderCount(file) - HeaderCount(scn.old) =
          (IF ~scn.existed /\ Events("save") # {} THEN 1 ELSE 0)
    /\ (~scn.existed /\ file # <<>>) => file[1] = Header
    /\ exists = (scn.existed \/ Events("save") # {})
    /\ file = scn.old
              \o (IF ~scn.existed /\ Events("save") # {} THEN <<Header>> ELSE <<>>)
              \o SavedRows(log)

\* a crawl that found no file is done after two saves of rows
C6_Witness ==
    /\ pc = "done"
    /\ ~scn.existed
    /\ Cardinality({ i \in Events("save") : log[i].n > 0 }) >= 2
    /\ HeaderCount(file) = 1

\* ------------------------------------------------------------------- C7
\* a step that sends the GET of the request in hand again
Reattempt == pc = "get" /\ gets >= 1 /\ gets' = gets + 1

Forcelisted(o) == o.kind = "response" /\ o.status \in status_forcelist

\* what the claim says of a failed crawl: it is fatal and nothing follows
AbortsCrawl ==
    /\ gets' <= RetryTotal + 1
    /\ (gets' = RetryTotal + 1 /\ gets' # gets /\ Forcelisted(last')) =>
          (pc' = "failed" /\ error' = "RetryError")
    /\ pc = "failed" => (log' = log /\ file' = file /\ pc' = "failed")

\* C7 as stated: a GET is sent again only after a response of status 429,
\* 500, 502, 503 or 504, and 12 times at most; the attempt after the 12th
\* that meets such a status raises a fatal error, after which nothing is
\* called and nothing is appended.
C7_RetryOnlyOnForcelist ==
    [][(Reattempt => Forcelisted(last)) /\ AbortsCrawl]_vars

\* C7 amended: a GET is sent again only after a response of status 429, 500,
\* 502, 503 or 504, a response of status 413, 429 or 503 that carries a
\* Retry-After header, or a connection error, and 12 times at most; the rest
\* as stated, a connection error after the 12th retry being fatal too.
C7_RetryOnForcelistRetryAfterOrConnection ==
    [][/\ Reattempt =>
            \/ Forcelisted(last)
            \/ /\ last.kind = "response" /\ last.retry_after
               /\ last.status \in RETRY_AFTER_STATUS_CODES
            \/ last.kind = "connection error"
       /\ AbortsCrawl
       /\ (gets' = RetryTotal + 1 /\ gets' # gets
           /\ last'.kind = "connection error") =>
              (pc' = "failed" /\ error' = "ConnectionError")]_vars

\* the 13th attempt of a request met a status of the list, after rows of an
\* earlier range had been saved
C7_Witness ==
    /\ pc = "failed"
    /\ error = "RetryError"
    /\ gets = RetryTotal + 1
    /\ Forcelisted(last)
    /\ Events("save") # {}


\* ------------------------------------------------------------------- C8
Iterative == scn.strategy = "iterative"

\* how many buckets from, from + f, from + 2f, ... up to to there are
BucketCount ==
    IF scn.date_from[1] > scn.date_to[1] THEN 0
    ELSE (scn.date_to[1] - scn.date_from[1]) \div scn.frequency + 1

Midnight(s) == s - (s % SecondsPerDay)

\* C8: in an iterative crawl the buckets are from, from + frequency, ... up
\* to to; the k-th API call is for 00:00:00-23:59:59 of the k-th bucket's
\* day, there is one call per bucket, and every result, one of 250 records
\* too, is saved as it is: nothing is split.
C8_OneCallPerBucketNoSplit ==
    (Iterative /\ pc # "main") =>
        /\ Len(days) = BucketCount
        /\ \A k \in DOMAIN days : days[k] = Ts(scn.date_from[1] + (k - 1) * scn.frequency)
        /\ Cardinality(Events("call")) <= BucketCount
        /\ pc = "done" => /\ Cardinality(Events("call")) = BucketCount
                          /\ Cardinality(Events("save")) = BucketCount
        /\ Events("split") = {}
        /\ \A i \in Events("call") :
             LET k == Cardinality({ j \in Events("call") : j <= i })
                 d == scn.date_from[1] + (k - 1) * scn.frequency
             IN  /\ log[i].from = Ts(Midnight(d))
                 /\ log[i].to = Ts(Midnight(d) + SecondsPerDay - 1)
                 /\ log[i].url = <<Midnight(d), Midnight(d) + SecondsPerDay - 1>>
        /\ \A i \in Events("result") :
             i < Len(log) => /\ log[i + 1].ev = "save"
                             /\ SameRange(log[i + 1], log[i])
                             /\ log[i + 1].n = log[i].n

\* an iterative crawl of several buckets is done and saved 250 records of
\* one bucket
C8_Witness ==
    /\ Iterative
    /\ pc = "done"
    /\ Len(days) >= 2
    /\ \E i \in Events("save") : log[i].n = Cap

\* ------------------------------------------------------------------- C9
RECURSIVE Recoverable(_)
\* whether deleting the character at the error offset, again and again,
\* turns d into a text json.loads accepts
Recoverable(d) ==
    LET r == Loads(d) IN
    IF r.ok THEN TRUE
    ELSE IF r.at >= Len(d) THEN FALSE
    ELSE Recoverable(DeleteAt(d, r.at))

OneStrayControl ==
    { InsertAt(v, p, Ctrl) : <<v, p>> \in { x \in ValidTexts \X (0 .. 14) : x[2] <= Len(x[1]) } }

\* C10: a response text whose only defect is one stray control character is
\* decoded by the second activation of parse_json, on the text without
\* exactly that character: one repair, no more, and no error.
C10_OneStrayControlOneRepair ==
    (pc \in {"parse", "result", "failed"} /\ text \in OneStrayControl) =>
        /\ depth <= 2
        /\ depth = 2 => /\ Loads(data).ok
                        /\ data = SelectSeq(text, LAMBDA c : c # Ctrl)
        /\ pc = "result" => depth = 2
        /\ error # "RecursionError"

\* ------------------------------------------------------------------ C11
\* datetime a is earlier than datetime b
Earlier(a, b) == a[1] < b[1] \/ (a[1] = b[1] /\ a[2] < b[2])

\* C11: every range handed to an API call, be it the range main() was given,
\* a half made by a split or a bucket's day, has its from earlier than its
\* to, and so have the startdatetime and enddatetime of the call's URL.
C11_CalledRangesAscend ==
    \A i \in Events("call") :
        /\ Earlier(log[i].from, log[i].to)
        /\ log[i].url[1] < log[i].url[2]

\* ------------------------------------------------------------------ C12
\* the GET attempts of the request in hand that have been sent: those that
\* met an outcome and, while session.get is at work, the one under way
AttemptsSent == IF pc = "get" THEN gets + 1 ELSE gets

\* C12 as stated: every GET attempt, the first of a request and every
\* retry, comes right after a time.sleep(timeout) of its own: as many delays
\* as attempts.
C12_DelayBeforeEveryAttempt ==
    pc \in {"get", "failed"} => delays = AttemptsSent

\* C12 amended: every request, that is every call of send_request, starts
\* with one time.sleep(timeout), made before its first GET attempt; the
\* attempts the retry policy adds, 12 at most, come without that delay.
C12_OneDelayPerRequest ==
    /\ pc = "get" => (delays = 1 /\ gets \in 0 .. RetryTotal)
    /\ (pc = "failed" /\ error \in {"RetryError", "ConnectionError"}) =>
          (delays = 1 /\ gets = RetryTotal + 1)
    /\ pc \in {"main", "call", "result", "done"} => (delays = 0 /\ gets = 0)

\* the third attempt of a request is under way after the one delay
C12_Witness ==
    /\ pc = "get"
    /\ gets = 2
    /\ delays = 1
    /\ last.kind = "response"
    /\ last.status \in status_forcelist

\* ------------------------------------------------------------------ C13
\* the pieces of s between the occurrences of c, by their positions: the
\* j-th piece lies between the (j-1)-th and the j-th occurrence
Cut(s, c) ==
    LET at == { i \in DOMAIN s : s[i] = c }
        nth(j) == IF j = 0 THEN 0
                  ELSE IF j = Cardinality(at) + 1 THEN Len(s) + 1
                  ELSE CHOOSE p \in at : Cardinality({ x \in at : x < p }) = j - 1
    IN  [j \in 1 .. Cardinality(at) + 1 |-> SubSeq(s, nth(j - 1) + 1, nth(j) - 1)]

\* the characters a percent-encoded string may hold as they are
Bare == {"w", "/", "0", "2", "5", "C"}

RECURSIVE Unquote(_)
\* percent-decoding: %20, %22, %25 and %2C back to the character; a string
\* that is not percent-encoded decodes to a marker no keyword holds
Unquote(s) ==
    IF s = <<>> THEN <<>>
    ELSE IF s[1] = "%"
    THEN IF Len(s) >= 3 /\ s[2] = "2" /\ s[3] \in {"0", "2", "5", "C"}
         THEN <<CASE s[3] = "0" -> " " [] s[3] = "2" -> Quote
                  [] s[3] = "5" -> "%" [] OTHER -> ",">>
              \o Unquote(SubSeq(s, 4, Len(s)))
         ELSE <<"?">>
    ELSE IF s[1] \in Bare THEN <<s[1]>> \o Unquote(Tail(s))
    ELSE <<"?">>

\* e is the percent-encoding of the term: it decodes to it
EncodingOf(e, term) == Unquote(e) = term

\* what the claim says of the query made of the keywords k
TransformedAsClaimed(k, q) ==
    IF \E i \in DOMAIN k : k[i] = ","
    THEN LET terms == Cut(k, ",")
             parts == Cut(q, Quote)
         IN  /\ Len(parts) = 2 * Len(terms) + 1
             /\ parts[1] = <<"(">>
             /\ parts[Len(parts)] = <<")">>
             /\ \A j \in DOMAIN terms : EncodingOf(parts[2 * j], terms[j])
             /\ \A j \in 1 .. Len(terms) - 1 :
                   parts[2 * j + 1] = <<" ", "O", "R", " ">>
    ELSE IF \E i \in DOMAIN k : k[i] \notin Bare
    THEN /\ Len(q) >= 2
         /\ q[1] = Quote
         /\ q[Len(q)] = Quote
         /\ EncodingOf(SubSeq(q, 2, Len(q) - 1), k)
         /\ SubSeq(q, 2, Len(q) - 1) # k
    ELSE q = k

\* C13: the query of every API call is transform_keywords of the --keywords
\* argument as the claim describes it: with a comma, the percent-encoded
\* comma-separated terms, each in double quotes, joined by OR, in
\* parentheses; without one, the percent-encoded term, in double quotes if
\* and only if encoding changed it, else the argument as it is.
C13_QueryEncodedAsClaimed ==
    \A i \in Events("call") : TransformedAsClaimed(scn.keywords, log[i].query)

\* a call was made for the keywords " ,w": ("%20" OR "w")
C13_Witness ==
    /\ scn.keywords = <<" ", ",", "w">>
    /\ Events("call") # {}
    /\ log[1].query = <<"(", Quote, "%", "2", "0", Quote, " ", "O", "R", " ",
                        Quote, "w", Quote, ")">>

\* ------------------------------------------------------------------ C14
\* how many API calls a recursive crawl of a range of d seconds makes at
\* most: its leaves last smallest_interval or more once it has split, so
\* there are d \div smallest_interval of them at most, and one call less
\* than twice the leaves
MostCalls(d) ==
    IF d < 2 * smallest_interval THEN 1 ELSE 2 * (d \div smallest_interval) - 1

\* C14: a recursive crawl comes to its end after finitely many API calls,
\* whatever the counts, 250 every time too: a range is split only if both
\* halves last smallest_interval (1800 s) or more, hence never if it lasts
\* less than 3600 s; the calls of a crawl are MostCalls at most; and as long
\* as calls return, the crawl takes its next step until it is done.
C14_RecursionEnds ==
    Recursive =>
        /\ \A i \in Events("split") :
              /\ AtLeastSeconds(Duration(log[i]), 2 * smallest_interval)
              /\ i < Len(log) =>
                    /\ AtLeastSeconds(Sub(log[i + 1].to, log[i].from), smallest_interval)
                    /\ AtLeastSeconds(Sub(log[i].to, log[i + 1].to), smallest_interval)
        /\ Cardinality(Events("call")) <= MostCalls(Sub(scn.date_to, scn.date_from)[1])
        /\ Len(frames) <= Cardinality(Events("split")) + 1
        /\ pc = "call" => ENABLED SendRequest
        /\ pc = "result" => ENABLED (Split \/ Save)
        /\ pc = "done" => frames = <<>>

\* the crawl of 7201 s is done after 250 records for every call: 7 calls, as
\* many as MostCalls allows, 4 of them saved
C14_Witness ==
    /\ Recursive
    /\ pc = "done"
    /\ scn.date_to = Ts(7201)
    /\ \A i \in Events("result") : log[i].n = Cap
    /\ Cardinality(Events("call")) = 7
    /\ Cardinality(Events("save")) = 4

\* ------------------------------------------------------------------ C15
\* the saves of the history, in their order
Leaves == SelectSeq(log, LAMBDA e : e.ev = "save")

\* C15: when a recursive crawl is done, the saved ranges, in the order of
\* their saves, go up in time without a gap: the first starts at date_from,
\* each next one starts where the one before it ends and later than that
\* one started, and the last ends at date_to; the rows in the file follow
\* the same order.
C15_LeavesAscendWithoutGap ==
    (Recursive /\ pc = "done") =>
        /\ Leaves # <<>>
        /\ Leaves[1].from = scn.date_from
        /\ Leaves[Len(Leaves)].to = scn.date_to
        /\ \A k \in 1 .. Len(Leaves) - 1 :
              /\ Leaves[k + 1].from = Leaves[k].to
              /\ Earlier(Leaves[k].from, Leaves[k + 1].from)
              /\ Leaves[k + 1].url[1] = Leaves[k].url[2]
        /\ LET rows == SelectSeq(Leaves, LAMBDA e : e.n > 0) IN
           SubSeq(file, Len(file) - Len(rows) + 1, Len(file))
              = [k \in DOMAIN rows |-> Rows(rows[k], rows[k].n)]

\* the crawl of 230401 s is done after seven splits: eight saved ranges,
\* some of them meeting between two whole seconds
C15_Witness ==
    /\ Recursive
    /\ pc = "done"
    /\ scn.date_to = Ts(230401)
    /\ Len(Leaves) = 8
    /\ \E k \in DOMAIN Leaves : Leaves[k].to[2] # 0


=============================================================================
